---------------------------- MODULE Spec2Model ----------------------------
(***************************************************************************)
(* Model of the Asteroids simulation in src/src/main.cc                    *)
(* (class AsteroidsGameEngine): resetGame, one OnUserUpdate frame broken   *)
(* into its loop iterations, WrapCoordinates and the collision tests.      *)
(*                                                                         *)
(* Numbers.  The program computes in float.  The model computes in exact   *)
(* rationals <<n, d>> (d > 0, lowest terms), so rounding error is not      *)
(* modelled.  Angles are kept in quarter turns (1 = PI/2), the only angles *)
(* whose sine and cosine are rational; the ship therefore turns by whole   *)
(* quarter turns and never thrusts in the inputs that are enumerated.      *)
(***************************************************************************)
EXTENDS Integers, Sequences, FiniteSets, Bags, TLC

-----------------------------------------------------------------------------
(* Exact rational arithmetic standing for float arithmetic.                *)

RECURSIVE GCD(_, _)
GCD(a, b) == IF b = 0 THEN a ELSE GCD(b, a % b)

Abs(n) == IF n < 0 THEN -n ELSE n

Rat(n, d) ==
  LET s == IF d < 0 THEN -1 ELSE 1
      g == GCD(Abs(n), Abs(d))
  IN  <<(s * n) \div g, (s * d) \div g>>

IntR(n) == <<n, 1>>

RAdd(a, b) == Rat(a[1] * b[2] + b[1] * a[2], a[2] * b[2])
RSub(a, b) == Rat(a[1] * b[2] - b[1] * a[2], a[2] * b[2])
RMul(a, b) == Rat(a[1] * b[1], a[2] * b[2])
RDiv(a, b) == Rat(a[1] * b[2], a[2] * b[1])
RLess(a, b) == a[1] * b[2] < b[1] * a[2]
RGeq(a, b) == ~RLess(a, b)

(* static_cast<int>(double): truncation toward zero *)
Trunc(a) == IF a[1] >= 0 THEN a[1] \div a[2] ELSE -((-a[1]) \div a[2])

-----------------------------------------------------------------------------
(* struct Vector2D                                                         *)

Vec(x, y) == [x |-> x, y |-> y]
VecI(x, y) == Vec(IntR(x), IntR(y))

VAdd(a, b) == Vec(RAdd(a.x, b.x), RAdd(a.y, b.y))
VSub(a, b) == Vec(RSub(a.x, b.x), RSub(a.y, b.y))
VScale(a, r) == Vec(RMul(a.x, r), RMul(a.y, r))

(* cosf and sinf of an angle given in quarter turns *)
CosQ(q) == CASE q % 4 = 0 -> 1 [] q % 4 = 1 -> 0 [] q % 4 = 2 -> -1 [] q % 4 = 3 -> 0
SinQ(q) == CASE q % 4 = 0 -> 0 [] q % 4 = 1 -> 1 [] q % 4 = 2 -> 0 [] q % 4 = 3 -> -1

(* atan2f(-y, x) in quarter turns; defined on the axes only *)
getAngle(v) ==
  CASE v.x[1] > 0 /\ v.y[1] = 0 -> 0
    [] v.x[1] = 0 /\ v.y[1] < 0 -> 1
    [] v.x[1] < 0 /\ v.y[1] = 0 -> 2
    [] v.x[1] = 0 /\ v.y[1] > 0 -> -1
    [] v.x[1] = 0 /\ v.y[1] = 0 -> 0

rotate(v, angle) ==
  LET cosA == IntR(CosQ(-angle))
      sinA == IntR(SinQ(-angle))
  IN  Vec(RSub(RMul(v.x, cosA), RMul(v.y, sinA)),
          RAdd(RMul(v.x, sinA), RMul(v.y, cosA)))

angleToVector(angle, mult) ==
  Vec(RMul(IntR(CosQ(angle)), mult), RMul(IntR(-SinQ(angle)), mult))

-----------------------------------------------------------------------------
(* Program constants                                                       *)

ScreenWidth == 160
ScreenHeight == 100
bulletSpeed == 50
playerThrust == 20
asteroidSizeMin == 8
asteroidSizeMax == 30
astroidSplitSpeed == 10
asteroidSpeedMult == 5
playerConstantSpeed == 2
SeedCount == 5
SteerRate == 1
HitMarkX == -100

-----------------------------------------------------------------------------
(* Wrapping and collision tests                                            *)

(* a wrap whose upper test is > instead of >= *)
WrapAxisStrict(c, extent) ==
  LET c1 == IF RLess(c, IntR(0)) THEN RAdd(c, IntR(extent)) ELSE c
  IN  IF RLess(IntR(extent), c1) THEN RSub(c1, IntR(extent)) ELSE c1

WrapAxis(c, extent) ==
  LET c1 == IF RLess(c, IntR(0)) THEN RAdd(c, IntR(extent)) ELSE c
  IN  IF RGeq(c1, IntR(extent)) THEN RSub(c1, IntR(extent)) ELSE c1

WrapCoordinates(v) == Vec(WrapAxis(v.x, ScreenWidth), WrapAxis(v.y, ScreenHeight))

IsCirclesCollided(o1, r1, o2, r2) ==
  LET dx == RSub(o1.x, o2.x)
      dy == RSub(o1.y, o2.y)
      d2 == RAdd(RMul(dx, dx), RMul(dy, dy))
      rs == r1 + r2
  IN  rs > 0 /\ RLess(d2, IntR(rs * rs))

IsPointInsideCircle(p, o, radius) == IsCirclesCollided(p, 0, o, radius)

-----------------------------------------------------------------------------
(* Bounds of the model                                                     *)

MaxFrames == 3
MaxWraps == 2

-----------------------------------------------------------------------------
(* State                                                                   *)

VARIABLES
  vecAsteroids,   \* std::vector<Transform>, each element tagged with an id
  vecBullets,     \* std::vector<Transform>, each element tagged with an id
  player,         \* Transform player
  isIgniting,
  capacity,       \* vecAsteroids.capacity()
  growthDiv,      \* growth policy of the vector: capacity += capacity / growthDiv
  pc,             \* position inside OnUserUpdate
  fElapsedTime,
  i, j, loopSize, \* locals of the asteroid pass; i is also the bullet scan's index
  b, checkSize,   \* locals of the bullet pass (b = index of the current bullet)
  frame,          \* number of completed frames
  nextId,         \* history: next unused id
  advCount,       \* history: integrations of every asteroid id in this frame
  startIds,       \* history: asteroid ids present when the frame started
  tested,         \* history: pairs {id, id} given to IsCirclesCollided this frame
  frameRemoved,   \* history: asteroids removed by every bullet id in this frame
  lifeRemoved,    \* history: asteroids removed by every bullet id ever
  bulletTested,   \* history: <<bullet id, asteroid id>> tested this frame
  lateTests,      \* history: bullet ids tested again after their hit, this frame
  bulletChildren, \* history: <<bullet id, asteroid id>> created by fission this frame
  ev,             \* history: the last merge, split or destroy
  wrapArg, wrapOnce, wrapTwice, wrapCalls,  \* argument and results of WrapCoordinates
  sizeBag         \* the population as a multiset of [nSize, gen]

shipVars == <<player, isIgniting, growthDiv, fElapsedTime, frame>>
gameVars == <<vecAsteroids, vecBullets, capacity, pc, i, j, loopSize, b, checkSize,
              shipVars>>
passHist == <<advCount, startIds, tested>>
shotHist == <<frameRemoved, lifeRemoved, bulletTested, lateTests, bulletChildren>>
histVars == <<nextId, passHist, shotHist, ev>>
wrapVars == <<wrapArg, wrapOnce, wrapTwice, wrapCalls>>
vars == <<gameVars, histVars, wrapVars, sizeBag>>

-----------------------------------------------------------------------------
(* Helpers on std::vector                                                  *)

Erase(s, k) == SubSeq(s, 1, k - 1) \o SubSeq(s, k + 1, Len(s))

Max(x, y) == IF x > y THEN x ELSE y

(* capacity after one emplace_back on a vector of `len` elements *)
PushCapacity(len, cap, div) ==
  IF len = cap THEN Max(cap + cap \div div, cap + 1) ELSE cap

RECURSIVE CapacityAfterPushes(_, _, _)
CapacityAfterPushes(n, cap, div) ==
  IF n = 0 THEN cap
  ELSE PushCapacity(n - 1, CapacityAfterPushes(n - 1, cap, div), div)

Ids(vec) == {vec[k].id : k \in 1..Len(vec)}

(* struct Transform, with two history fields: id names the body, gen is   *)
(* the number of fissions that produced it                                 *)
Transform(pos, vel, nSize, id, gen) ==
  [pos |-> pos, vel |-> vel, nSize |-> nSize, rotateAngle |-> 0, id |-> id,
   gen |-> gen]

-----------------------------------------------------------------------------
(* resetGame: the five random draws of one asteroid are d.angle (quarter   *)
(* turns), d.rSpeed, d.rSize, d.rX, d.rY (rationals in [0, 1)).            *)

(* a seed whose size forgets the + asteroidSizeMin *)
SeedAsteroidNoMin(d, id) ==
  LET speed == RMul(d.rSpeed, IntR(asteroidSpeedMult))
      v0    == angleToVector(d.angle, speed)
      vel   == Vec(v0.x, RSub(v0.y, IntR(playerConstantSpeed)))
      size  == Trunc(RMul(d.rSize, IntR(asteroidSizeMax - asteroidSizeMin)))
      pos   == Vec(RMul(IntR(ScreenWidth), d.rX), RMul(IntR(ScreenHeight), d.rY))
  IN  Transform(pos, vel, size, id, 0)

SeedAsteroid(d, id) ==
  LET speed == RMul(d.rSpeed, IntR(asteroidSpeedMult))
      v0    == angleToVector(d.angle, speed)
      vel   == Vec(v0.x, RSub(v0.y, IntR(playerConstantSpeed)))
      size  == Trunc(RMul(d.rSize, IntR(asteroidSizeMax - asteroidSizeMin)))
                 + asteroidSizeMin
      pos   == Vec(RMul(IntR(ScreenWidth), d.rX), RMul(IntR(ScreenHeight), d.rY))
  IN  Transform(pos, vel, size, id, 0)

resetGame(draws) == [k \in 1..SeedCount |-> SeedAsteroid(draws[k], k)]

PlayerStart ==
  [pos |-> Vec(Rat(ScreenWidth, 2), Rat(ScreenHeight, 2)),
   vel |-> VecI(0, 0), rotateAngle |-> 0]

NoEvent ==
  [kind |-> "none", before |-> <<>>, after |-> <<>>, index |-> 0, other |-> 0,
   bullet |-> 0, bpos |-> VecI(0, 0)]

-----------------------------------------------------------------------------
(* The asteroid pass of OnUserUpdate                                       *)

(* a.pos += a.vel * fElapsedTime; WrapCoordinates(a.pos) *)
Integrate(t, dt) == [t EXCEPT !.pos = WrapCoordinates(VAdd(t.pos, VScale(t.vel, dt)))]

(* a merge that absorbs the earlier asteroid when the sizes are equal *)
MergeAsteroidsTieFirst(vec, i0, j0) ==
  LET a  == vec[i0 + 1]
      a2 == vec[j0 + 1]
      smallerAsteroidIndex == IF a.nSize <= a2.nSize THEN i0 ELSE j0
      largerAsteroidIndex  == IF a.nSize <= a2.nSize THEN j0 ELSE i0
      smallerAsteroid == vec[smallerAsteroidIndex + 1]
      largerAsteroid  == vec[largerAsteroidIndex + 1]
      ratio  == RDiv(IntR(smallerAsteroid.nSize), IntR(largerAsteroid.nSize))
      newVel == VAdd(largerAsteroid.vel,
                     VScale(VSub(smallerAsteroid.vel, largerAsteroid.vel), ratio))
  IN  Erase([vec EXCEPT ![largerAsteroidIndex + 1].vel = newVel],
            smallerAsteroidIndex + 1)

(* the body of `if (IsCirclesCollided(...))`, i0 < j0 are the C++ indices *)
MergeAsteroids(vec, i0, j0) ==
  LET a  == vec[i0 + 1]
      a2 == vec[j0 + 1]
      smallerAsteroidIndex == IF a.nSize < a2.nSize THEN i0 ELSE j0
      largerAsteroidIndex  == IF a.nSize < a2.nSize THEN j0 ELSE i0
      smallerAsteroid == vec[smallerAsteroidIndex + 1]
      largerAsteroid  == vec[largerAsteroidIndex + 1]
      ratio  == RDiv(IntR(smallerAsteroid.nSize), IntR(largerAsteroid.nSize))
      newVel == VAdd(largerAsteroid.vel,
                     VScale(VSub(smallerAsteroid.vel, largerAsteroid.vel), ratio))
  IN  Erase([vec EXCEPT ![largerAsteroidIndex + 1].vel = newVel],
            smallerAsteroidIndex + 1)

-----------------------------------------------------------------------------
(* The bullet pass of OnUserUpdate                                         *)

(* a child size that forgets the + 1 *)
ChildSizeHalf(n) == Trunc(RDiv(IntR(n), IntR(2)))

(* static_cast<int>(a.nSize / 2. + 1) *)
ChildSize(n) == Trunc(RAdd(RDiv(IntR(n), IntR(2)), IntR(1)))

(* what a read through the reference `a` yields after the first            *)
(* emplace_back: the element itself, or anything once the vector has       *)
(* reallocated and `a` dangles                                             *)
Garbage == Transform(VecI(0, 0), VecI(0, 0), 0, 0, 0)
ReadAfterPush(a, len, cap) == IF len = cap THEN {a, Garbage} ELSE {a}

(* a split test that is always true *)
SplitsAlways(n) == TRUE

(* a split test with > for >= *)
SplitsStrict(n) == n > asteroidSizeMin

(* if (a.nSize >= asteroidSizeMin) *)
Splits(n) == n >= asteroidSizeMin

(* the body of `if (IsPointInsideCircle(...))` without the bullet: the      *)
(* split, then the erase.  i0 is the C++ index, bvel the bullet velocity,   *)
(* ar the value read through `a` for the second child, nid the first id.    *)
FissionAsteroid(vec, i0, bvel, ar, nid) ==
  LET a == vec[i0 + 1]
      divAngle == getAngle(bvel)
      angle1 == divAngle + 1
      angle2 == divAngle - 1
      v1 == angleToVector(angle1, IntR(astroidSplitSpeed))
      v2 == angleToVector(angle2, IntR(astroidSplitSpeed))
      reach == RAdd(RDiv(IntR(a.nSize), IntR(2)), IntR(1))
      offset1 == angleToVector(angle1, reach)
      offset2 == angleToVector(angle2, reach)
      c1 == Transform(VAdd(a.pos, offset1), VAdd(v1, a.vel), ChildSize(a.nSize), nid, a.gen + 1)
      c2 == Transform(VAdd(ar.pos, offset2), VAdd(v2, ar.vel), ChildSize(ar.nSize), nid + 1, a.gen + 1)
      grown == IF Splits(a.nSize) THEN Append(Append(vec, c1), c2) ELSE vec
  IN  Erase(grown, i0 + 1)

(* an off-screen test without the left edge *)
OffScreenNoLeft(t) ==
  \/ RGeq(t.pos.x, IntR(ScreenWidth))
  \/ RLess(t.pos.y, IntR(0))
  \/ RGeq(t.pos.y, IntR(ScreenHeight))

OffScreen(t) ==
  \/ RLess(t.pos.x, IntR(0))
  \/ RGeq(t.pos.x, IntR(ScreenWidth))
  \/ RLess(t.pos.y, IntR(0))
  \/ RGeq(t.pos.y, IntR(ScreenHeight))

(* std::remove_if + erase *)
RemoveOffScreen(bullets) == SelectSeq(bullets, LAMBDA t : ~OffScreen(t))

-----------------------------------------------------------------------------
(* Inputs that are enumerated                                              *)

Tenth == <<1, 10>>
Half == <<1, 2>>

(* frame times *)
DtSet == {Tenth}

(* <<left held, right held, up held, space pressed>>; up is never held *)
KeySet ==
  {<<l, r, FALSE, f>> : l \in BOOLEAN, r \in BOOLEAN, f \in BOOLEAN}
    \ {<<TRUE, TRUE, FALSE, f>> : f \in BOOLEAN}

(* the draws that make resetGame seed size `size` at (x, y) *)
Draw(angle, rSpeed, size, x, y) ==
  [angle |-> angle, rSpeed |-> rSpeed,
   rSize |-> Rat(size - asteroidSizeMin, asteroidSizeMax - asteroidSizeMin),
   rX |-> Rat(x, ScreenWidth), rY |-> Rat(y, ScreenHeight)]

(* angle 3/4 turn and speed 2 cancel the constant drift: a resting asteroid *)
Resting(size, x, y) == Draw(3, <<2, 5>>, size, x, y)
Drifting(size, x, y) == Draw(0, <<0, 1>>, size, x, y)

SeedSizes == asteroidSizeMin..(asteroidSizeMax - 1)

SeedDraws ==
  (* one asteroid of every size in front of the ship, a cluster of three
     overlapping asteroids, one far away *)
  { << Resting(s, 80, 40), Drifting(8, 20, 20), Draw(0, <<1, 5>>, 8, 22, 20),
       Draw(2, <<2, 5>>, 9, 24, 20), Drifting(10, 140, 90) >> : s \in SeedSizes }
  \cup
  (* three overlapping asteroids in front of the ship *)
  { << Resting(8, 85, 40), Resting(8, 100, 40), Resting(9, 78, 40),
       Drifting(12, 20, 80), Drifting(10, 140, 90) >>,
  (* a minimum-size asteroid whose child drifts back into the line of fire *)
    << Resting(8, 85, 40), Drifting(20, 20, 20), Drifting(9, 130, 20),
       Drifting(12, 20, 80), Drifting(10, 140, 90) >> }

-----------------------------------------------------------------------------
(* Initial state: OnUserCreate has run                                     *)

WrapIdle ==
  /\ wrapArg = VecI(0, 0)
  /\ wrapOnce = VecI(0, 0)
  /\ wrapTwice = VecI(0, 0)
  /\ wrapCalls = 0

HistInit ==
  /\ advCount = [k \in 1..SeedCount |-> 0]
  /\ startIds = {}
  /\ tested = {}
  /\ frameRemoved = <<>>
  /\ lifeRemoved = <<>>
  /\ bulletTested = {}
  /\ lateTests = {}
  /\ bulletChildren = {}
  /\ ev = NoEvent

LocalsInit ==
  /\ player = PlayerStart
  /\ isIgniting = FALSE
  /\ fElapsedTime = IntR(0)
  /\ i = 0 /\ j = 0 /\ loopSize = 0 /\ b = 0 /\ checkSize = 0
  /\ frame = 0

Init ==
  /\ \E draws \in SeedDraws : vecAsteroids = resetGame(draws)
  /\ vecBullets = <<>>
  /\ growthDiv \in {1, 2}
  /\ capacity = CapacityAfterPushes(SeedCount, 0, growthDiv)
  /\ pc = "idle"
  /\ nextId = SeedCount + 1
  /\ LocalsInit
  /\ HistInit
  /\ WrapIdle
  /\ sizeBag = EmptyBag

-----------------------------------------------------------------------------
(* OnUserUpdate, lines 184-211: controls, ship, fire                       *)

BeginFrame ==
  /\ pc = "idle"
  /\ frame < MaxFrames
  /\ \E keys \in KeySet, dt \in DtSet :
       LET left   == keys[1]
           right  == keys[2]
           up     == keys[3]
           space  == keys[4]
           angle  == player.rotateAngle + (IF left THEN SteerRate ELSE 0)
                                        - (IF right THEN SteerRate ELSE 0)
           acc    == angleToVector(angle + 1, IntR(playerThrust))
           vel    == IF up THEN VAdd(player.vel, VScale(acc, dt)) ELSE player.vel
           pos    == WrapCoordinates(VAdd(player.pos, VScale(vel, dt)))
           localBulletPos == rotate(Vec(IntR(0), Rat(-11, 2)), angle)
           localBulletVel == angleToVector(angle + 1, IntR(bulletSpeed))
           bid    == Len(lifeRemoved) + 1
           bullet == Transform(VAdd(localBulletPos, pos), VAdd(localBulletVel, vel),
                               0, bid, 0)
       IN  /\ player' = [player EXCEPT !.rotateAngle = angle, !.vel = vel, !.pos = pos]
           /\ isIgniting' = up
           /\ fElapsedTime' = dt
           /\ vecBullets' = IF space THEN Append(vecBullets, bullet) ELSE vecBullets
           /\ lifeRemoved' = IF space THEN Append(lifeRemoved, 0) ELSE lifeRemoved
           /\ frameRemoved' = [k \in 1..Len(lifeRemoved') |-> 0]
  /\ loopSize' = Len(vecAsteroids)
  /\ i' = 0
  /\ pc' = "astOuter"
  /\ startIds' = Ids(vecAsteroids)
  /\ advCount' = [k \in DOMAIN advCount |-> 0]
  /\ tested' = {}
  /\ bulletTested' = {}
  /\ lateTests' = {}
  /\ bulletChildren' = {}
  /\ ev' = NoEvent
  /\ UNCHANGED <<vecAsteroids, capacity, growthDiv, j, b, checkSize, frame, nextId,
                 wrapVars, sizeBag>>

-----------------------------------------------------------------------------
(* OnUserUpdate, lines 214-236: the asteroid pass                          *)

(* for (i ...) { a.pos += ...; WrapCoordinates(a.pos); ... *)
IntegrateAsteroid ==
  /\ pc = "astOuter"
  /\ i < loopSize
  /\ vecAsteroids' = [vecAsteroids EXCEPT ![i + 1] = Integrate(@, fElapsedTime)]
  /\ advCount' = [advCount EXCEPT ![vecAsteroids[i + 1].id] = @ + 1]
  /\ j' = i + 1
  /\ pc' = "astInner"
  /\ UNCHANGED <<vecBullets, capacity, i, loopSize, b, checkSize, shipVars, nextId,
                 startIds, tested, shotHist, ev, wrapVars, sizeBag>>

(* `a` is a reference to slot i: after an erase at i it reads the asteroid *)
(* that moved into the slot                                                *)
PairCollided ==
  LET a == vecAsteroids[i + 1]
      a2 == vecAsteroids[j + 1]
  IN  IsCirclesCollided(a.pos, a.nSize, a2.pos, a2.nSize)

PairTested == {vecAsteroids[i + 1].id, vecAsteroids[j + 1].id}

PairMiss ==
  /\ pc = "astInner"
  /\ j < loopSize
  /\ ~PairCollided
  /\ tested' = tested \cup {PairTested}
  /\ j' = j + 1
  /\ UNCHANGED <<vecAsteroids, vecBullets, capacity, pc, i, loopSize, b, checkSize,
                 shipVars, nextId, advCount, startIds, shotHist, ev, wrapVars, sizeBag>>

PairMerge ==
  /\ pc = "astInner"
  /\ j < loopSize
  /\ PairCollided
  /\ tested' = tested \cup {PairTested}
  /\ vecAsteroids' = MergeAsteroids(vecAsteroids, i, j)
  /\ loopSize' = loopSize - 1
  /\ j' = j + 1
  /\ ev' = [kind |-> "merge", before |-> vecAsteroids, after |-> vecAsteroids',
            index |-> i + 1, other |-> j + 1, bullet |-> 0, bpos |-> VecI(0, 0)]
  /\ UNCHANGED <<vecBullets, capacity, pc, i, b, checkSize, shipVars, nextId,
                 advCount, startIds, shotHist, wrapVars, sizeBag>>

EndInner ==
  /\ pc = "astInner"
  /\ j >= loopSize
  /\ i' = i + 1
  /\ j' = 0
  /\ pc' = "astOuter"
  /\ UNCHANGED <<vecAsteroids, vecBullets, capacity, loopSize, b, checkSize, shipVars,
                 histVars, wrapVars, sizeBag>>

EndAsteroidPass ==
  /\ pc = "astOuter"
  /\ i >= loopSize
  /\ i' = 0
  /\ loopSize' = 0
  /\ b' = 0
  /\ pc' = "bulHead"
  /\ UNCHANGED <<vecAsteroids, vecBullets, capacity, j, checkSize, shipVars,
                 histVars, wrapVars, sizeBag>>

-----------------------------------------------------------------------------
(* OnUserUpdate, lines 239-275: the bullet pass                            *)

(* for (auto &b : vecBullets) { b.pos += b.vel * fElapsedTime; ... *)
IntegrateBullet ==
  /\ pc = "bulHead"
  /\ b < Len(vecBullets)
  /\ vecBullets' = [vecBullets EXCEPT ![b + 1].pos =
                       VAdd(@, VScale(vecBullets[b + 1].vel, fElapsedTime))]
  /\ checkSize' = Len(vecAsteroids)
  /\ i' = 0
  /\ pc' = "bulScan"
  /\ UNCHANGED <<vecAsteroids, capacity, j, loopSize, b, shipVars, histVars,
                 wrapVars, sizeBag>>

BulletInside ==
  LET bl == vecBullets[b + 1]
      a == vecAsteroids[i + 1]
  IN  IsPointInsideCircle(bl.pos, a.pos, a.nSize)

(* history of one IsPointInsideCircle call *)
NoteBulletTest ==
  LET bl == vecBullets[b + 1]
  IN  /\ bulletTested' = bulletTested \cup {<<bl.id, vecAsteroids[i + 1].id>>}
      /\ lateTests' = IF frameRemoved[bl.id] > 0 THEN lateTests \cup {bl.id}
                      ELSE lateTests

BulletMiss ==
  /\ pc = "bulScan"
  /\ i < checkSize
  /\ ~BulletInside
  /\ NoteBulletTest
  /\ i' = i + 1
  /\ UNCHANGED <<vecAsteroids, vecBullets, capacity, pc, j, loopSize, b, checkSize,
                 shipVars, nextId, passHist, frameRemoved, lifeRemoved,
                 bulletChildren, ev, wrapVars, sizeBag>>

(* the scan of this bullet goes on after a hit: checkSize--, no break *)
KeepScanning ==
  /\ checkSize' = checkSize - 1
  /\ i' = i + 1
  /\ UNCHANGED <<b, pc>>

(* checkSize--; break; *)
BreakScan ==
  /\ checkSize' = 0
  /\ i' = 0
  /\ b' = b + 1
  /\ pc' = "bulHead"

BulletHit ==
  /\ pc = "bulScan"
  /\ i < checkSize
  /\ BulletInside
  /\ NoteBulletTest
  /\ LET bl == vecBullets[b + 1]
         a == vecAsteroids[i + 1]
         len == Len(vecAsteroids)
         cap1 == PushCapacity(len, capacity, growthDiv)
         cap2 == PushCapacity(len + 1, cap1, growthDiv)
     IN  /\ vecBullets' = [vecBullets EXCEPT ![b + 1].pos.x = IntR(HitMarkX)]
         /\ \E ar \in ReadAfterPush(a, len, capacity) :
              vecAsteroids' = FissionAsteroid(vecAsteroids, i, bl.vel, ar, nextId)
         /\ capacity' = IF Len(vecAsteroids') > len THEN cap2 ELSE capacity
         /\ nextId' = IF Len(vecAsteroids') > len THEN nextId + 2 ELSE nextId
         /\ advCount' = IF Len(vecAsteroids') > len THEN Append(Append(advCount, 0), 0)
                        ELSE advCount
         /\ bulletChildren' =
              bulletChildren \cup {<<bl.id, n>> : n \in Ids(vecAsteroids') \ Ids(vecAsteroids)}
         /\ frameRemoved' = [frameRemoved EXCEPT ![bl.id] = @ + 1]
         /\ lifeRemoved' = [lifeRemoved EXCEPT ![bl.id] = @ + 1]
         /\ ev' = [kind |-> "hit", before |-> vecAsteroids, after |-> vecAsteroids',
                   index |-> i + 1, other |-> 0, bullet |-> bl.id, bpos |-> bl.pos]
  /\ BreakScan
  /\ UNCHANGED <<j, loopSize, shipVars, startIds, tested, wrapVars, sizeBag>>

EndBulletScan ==
  /\ pc = "bulScan"
  /\ i >= checkSize
  /\ checkSize' = 0
  /\ i' = 0
  /\ b' = b + 1
  /\ pc' = "bulHead"
  /\ UNCHANGED <<vecAsteroids, vecBullets, capacity, j, loopSize, shipVars, histVars,
                 wrapVars, sizeBag>>

(* lines 277-291: prune the bullets, draw the ship, return *)
PruneBullets ==
  /\ pc = "bulHead"
  /\ b >= Len(vecBullets)
  /\ vecBullets' = RemoveOffScreen(vecBullets)
  /\ b' = 0
  /\ frame' = frame + 1
  /\ pc' = "idle"
  /\ UNCHANGED <<vecAsteroids, capacity, i, j, loopSize, checkSize, player, isIgniting,
                 growthDiv, fElapsedTime, histVars, wrapVars, sizeBag>>

Next ==
  \/ BeginFrame
  \/ IntegrateAsteroid
  \/ PairMiss
  \/ PairMerge
  \/ EndInner
  \/ EndAsteroidPass
  \/ IntegrateBullet
  \/ BulletMiss
  \/ BulletHit
  \/ EndBulletScan
  \/ PruneBullets

Spec == Init /\ [][Next]_vars

-----------------------------------------------------------------------------
(* WrapCoordinates on its own: SpecWrap calls it twice on a drawn position *)

Parked(where) ==
  /\ vecAsteroids = <<>>
  /\ vecBullets = <<>>
  /\ growthDiv = 1
  /\ capacity = 0
  /\ pc = where
  /\ nextId = 1
  /\ LocalsInit
  /\ HistInit

(* k extents away from the field, at the edge, just inside, just before the next *)
WrapCoords(extent) ==
  { RAdd(IntR(k * extent), o) :
      k \in (-MaxWraps)..MaxWraps, o \in {IntR(0), Half, RSub(IntR(extent), Half)} }

InitWrap ==
  /\ Parked("wrap")
  /\ sizeBag = EmptyBag
  /\ \E x \in WrapCoords(ScreenWidth), y \in WrapCoords(ScreenHeight) :
       wrapArg = Vec(x, y)
  /\ wrapOnce = wrapArg
  /\ wrapTwice = wrapArg
  /\ wrapCalls = 0

WrapFirst ==
  /\ wrapCalls = 0
  /\ wrapOnce' = WrapCoordinates(wrapArg)
  /\ wrapTwice' = wrapOnce'
  /\ wrapCalls' = 1
  /\ UNCHANGED <<gameVars, histVars, wrapArg, sizeBag>>

WrapSecond ==
  /\ wrapCalls = 1
  /\ wrapTwice' = WrapCoordinates(wrapOnce)
  /\ wrapCalls' = 2
  /\ UNCHANGED <<gameVars, histVars, wrapArg, wrapOnce, sizeBag>>

NextWrap == WrapFirst \/ WrapSecond

SpecWrap == InitWrap /\ [][NextWrap]_vars

-----------------------------------------------------------------------------
(* Fission and merging on their own.  SpecFission keeps the population as  *)
(* the multiset of [nSize, gen] and leaves the geometry open: any asteroid *)
(* can be the one a bullet hits, any two asteroids can be the pair that    *)
(* collides, in either order.  Bullets keep hitting: FissionHit is fair.   *)
(* The reference `a` never dangles in the split (NoDanglingRead below), so  *)
(* the second child is read from the asteroid itself.                       *)

SizeKey(t) == [nSize |-> t.nSize, gen |-> t.gen]

AsBody(e) == Transform(VecI(0, 0), VecI(0, 0), e.nSize, 0, e.gen)

RECURSIVE VecBag(_)
VecBag(vec) ==
  IF vec = <<>> THEN EmptyBag
  ELSE SetToBag({SizeKey(Head(vec))}) (+) VecBag(Tail(vec))

BulletUp == angleToVector(1, IntR(bulletSpeed))

FissionSeedSizes == {8, 13, 14, 25, 26, 29}

InitFission ==
  /\ Parked("fission")
  /\ WrapIdle
  /\ \E s \in FissionSeedSizes :
       sizeBag = VecBag(resetGame([k \in 1..SeedCount |-> Resting(s, 80, 40)]))

FissionHit ==
  /\ \E e \in BagToSet(sizeBag) :
       sizeBag' = (sizeBag (-) SetToBag({e}))
                    (+) VecBag(FissionAsteroid(<<AsBody(e)>>, 0, BulletUp, AsBody(e), 0))
  /\ UNCHANGED <<gameVars, histVars, wrapVars>>

FissionMerge ==
  /\ \E e1 \in BagToSet(sizeBag), e2 \in BagToSet(sizeBag) :
       /\ e1 # e2 \/ CopiesIn(e1, sizeBag) >= 2
       /\ sizeBag' = ((sizeBag (-) SetToBag({e1})) (-) SetToBag({e2}))
                       (+) VecBag(MergeAsteroids(<<AsBody(e1), AsBody(e2)>>, 0, 1))
  /\ UNCHANGED <<gameVars, histVars, wrapVars>>

NextFission == FissionHit \/ FissionMerge

(* Weak fairness of FissionHit, WF_vars(FissionHit), with its enabling      *)
(* condition written out: a hit is possible exactly when the population is *)
(* not empty, and every hit changes the multiset.                          *)
HitFair == []<>(sizeBag = EmptyBag) \/ []<> <<FissionHit>>_vars

SpecFission == InitFission /\ [][NextFission]_vars /\ HitFair

-----------------------------------------------------------------------------
(* Properties                                                              *)

(* the asteroid pass has ended and no bullet has been handled yet *)
ScanEnded == pc = "bulHead" /\ b = 0

(* the last event is a bullet hit / an asteroid merge *)
IsHit == ev.kind = "hit"
IsMerge == ev.kind = "merge"
Struck == ev.before[ev.index]

InField(p) ==
  /\ p.x[1] >= 0 /\ p.x[1] < ScreenWidth * p.x[2]
  /\ p.y[1] >= 0 /\ p.y[1] < ScreenHeight * p.y[2]

(* The first emplace_back of a split never reallocates: the vector always  *)
(* has spare capacity when a bullet is scanning it.                        *)
NoDanglingRead == pc = "bulScan" => Len(vecAsteroids) < capacity

(* C1: when the pairwise scan of a frame ends, every two asteroids that are
   both still in the population have been given to IsCirclesCollided in
   that frame. *)
C1_SurvivingPairsTested ==
  ScanEnded =>
    \A k1 \in 1..Len(vecAsteroids), k2 \in 1..Len(vecAsteroids) :
      k1 < k2 => {vecAsteroids[k1].id, vecAsteroids[k2].id} \in tested

(* C2: when the asteroid pass of a frame ends, every asteroid that was in
   the population at the start of the frame and is still in it has been
   advanced by vel * dt exactly once in that frame. *)
C2_SurvivorsAdvancedOnce ==
  ScanEnded =>
    \A k \in 1..Len(vecAsteroids) :
      vecAsteroids[k].id \in startIds => advCount[vecAsteroids[k].id] = 1

(* C3: in one frame a bullet removes at most one asteroid; the asteroid it
   removes is the first one in population order that contains the bullet
   and no other asteroid disappears; after its hit the bullet is tested
   against nothing more in that frame, in particular not against the
   children of the fission. *)
ContainsShot(k) == IsPointInsideCircle(ev.bpos, ev.before[k].pos, ev.before[k].nSize)

C3_OneAsteroidPerBullet ==
  /\ \A k \in DOMAIN frameRemoved : frameRemoved[k] <= 1
  /\ lateTests = {}
  /\ bulletChildren \cap bulletTested = {}
  /\ IsHit =>
       /\ ContainsShot(ev.index)
       /\ \A k \in 1..(ev.index - 1) : ~ContainsShot(k)
       /\ Ids(ev.before) \ Ids(ev.after) = {Struck.id}

C3_Witness ==
  /\ IsHit
  /\ Cardinality({k \in 1..Len(ev.before) : ContainsShot(k)}) >= 2
  /\ Len(ev.after) > ev.index

(* C4: a hit on an asteroid of size n >= asteroidSizeMin replaces it by
   exactly two children: the population grows by one, the parent is gone,
   the other asteroids are unchanged and keep their order, and both
   children have size floor(n / 2 + 1), which is less than n. *)
IsChildOf(c, n) ==
  /\ 2 * c.nSize <= n + 2
  /\ n + 2 < 2 * c.nSize + 2
  /\ c.nSize < n
  /\ c.id \notin Ids(ev.before)

C4_FissionMakesTwoChildren ==
  (IsHit /\ Struck.nSize >= asteroidSizeMin) =>
    LET m == Len(ev.before)
    IN  /\ Len(ev.after) = m + 1
        /\ Struck.id \notin Ids(ev.after)
        /\ SubSeq(ev.after, 1, m - 1) = Erase(ev.before, ev.index)
        /\ IsChildOf(ev.after[m], Struck.nSize)
        /\ IsChildOf(ev.after[m + 1], Struck.nSize)
        /\ ev.after[m].id # ev.after[m + 1].id

C4_Witness == IsHit /\ Struck.nSize >= asteroidSizeMin /\ Struck.nSize % 2 = 1

(* C5, as claimed: a hit on an asteroid of size exactly asteroidSizeMin
   destroys it with no children, the population shrinks by one. *)
C5_MinSizeDestroyed ==
  (IsHit /\ Struck.nSize = asteroidSizeMin) =>
    /\ Len(ev.after) = Len(ev.before) - 1
    /\ Ids(ev.after) \subseteq Ids(ev.before)

(* C5, amended: a hit on an asteroid of size below asteroidSizeMin destroys
   it with no children, the population shrinks by one and nothing else
   changes; a hit on an asteroid of size exactly asteroidSizeMin splits it,
   the population grows by one. *)
C5_BelowMinDestroyed ==
  /\ (IsHit /\ Struck.nSize < asteroidSizeMin) =>
       /\ Len(ev.after) = Len(ev.before) - 1
       /\ ev.after = Erase(ev.before, ev.index)
  /\ (IsHit /\ Struck.nSize = asteroidSizeMin) =>
       Len(ev.after) = Len(ev.before) + 1

C5_Witness == IsHit /\ Struck.nSize < asteroidSizeMin

(* C6: between frames every bullet in the population is inside the
   playfield and has hit nothing in the frame just ended; no bullet ever
   removes more than one asteroid. *)
C6_PrunedBulletsInField ==
  /\ pc = "idle" =>
       \A k \in 1..Len(vecBullets) :
         InField(vecBullets[k].pos) /\ frameRemoved[vecBullets[k].id] = 0
  /\ \A k \in DOMAIN lifeRemoved : lifeRemoved[k] <= 1

C6_Witness ==
  /\ pc = "idle"
  /\ Len(vecBullets) > 0
  /\ \E k \in DOMAIN frameRemoved : frameRemoved[k] = 1

(* C7: every asteroid has a strictly positive size, and the size that the
   momentum blend divides by is strictly positive. *)
C7_SizesPositive ==
  /\ \A k \in 1..Len(vecAsteroids) : vecAsteroids[k].nSize > 0
  /\ IsMerge => Max(ev.before[ev.index].nSize, ev.before[ev.other].nSize) > 0

C7_Witness == IsMerge /\ \E k \in 1..Len(ev.before) : ev.before[k].gen > 0

(* C8: one WrapCoordinates call brings a position with x in
   [-ScreenWidth, 2 * ScreenWidth) and y in [-ScreenHeight, 2 * ScreenHeight)
   into the playfield, a second call changes nothing, and a coordinate
   outside that range is still out of bounds after one call. *)
Within(c, lo, hi) == c[1] >= lo * c[2] /\ c[1] < hi * c[2]

C8_SingleWrap ==
  wrapCalls >= 1 =>
    /\ (/\ Within(wrapArg.x, -ScreenWidth, 2 * ScreenWidth)
        /\ Within(wrapArg.y, -ScreenHeight, 2 * ScreenHeight))
         => (InField(wrapOnce) /\ wrapTwice = wrapOnce)
    /\ ~Within(wrapArg.x, -ScreenWidth, 2 * ScreenWidth)
         => ~Within(wrapOnce.x, 0, ScreenWidth)
    /\ ~Within(wrapArg.y, -ScreenHeight, 2 * ScreenHeight)
         => ~Within(wrapOnce.y, 0, ScreenHeight)

C8_Witness ==
  /\ wrapCalls = 2
  /\ wrapArg.x = IntR(ScreenWidth)
  /\ Within(wrapArg.y, -ScreenHeight, 0)

(* C9: a merge removes exactly one asteroid, the smaller of the colliding
   pair and the later one when the sizes are equal; the survivor keeps its
   position and size and gets velocity v + (sa / ss) * (va - v); every other
   asteroid is unchanged. *)
C9_MergeAbsorbsSmaller ==
  IsMerge =>
    LET x == ev.before[ev.index]
        y == ev.before[ev.other]
        gone == IF x.nSize < y.nSize THEN ev.index ELSE ev.other
        ab == ev.before[gone]
        sv == IF x.nSize < y.nSize THEN y ELSE x
        kept == Erase(ev.before, gone)
    IN  /\ Len(ev.after) = Len(ev.before) - 1
        /\ \A k \in 1..Len(ev.after) :
             IF kept[k].id = sv.id
             THEN /\ ev.after[k] = [sv EXCEPT !.vel = ev.after[k].vel]
                  /\ VScale(VSub(ev.after[k].vel, sv.vel), IntR(sv.nSize))
                       = VScale(VSub(ab.vel, sv.vel), IntR(ab.nSize))
             ELSE ev.after[k] = kept[k]

C9_Witness ==
  /\ IsMerge
  /\ ev.before[ev.index].nSize = ev.before[ev.other].nSize
  /\ ev.before[ev.index].vel # ev.before[ev.other].vel

(* C10: no asteroid is the product of more than 3 fissions and one that is
   has a size below asteroidSizeMin, the population never holds more than
   40 asteroids, and when bullets keep hitting the population becomes
   empty. *)
FissionBounded ==
  /\ BagCardinality(sizeBag) <= 8 * SeedCount
  /\ \A e \in BagToSet(sizeBag) :
       e.gen <= 3 /\ (e.gen = 3 => e.nSize < asteroidSizeMin)

C10_FissionTerminates == []FissionBounded /\ <>(sizeBag = EmptyBag)

C10_Witness ==
  /\ BagCardinality(sizeBag) = 8 * SeedCount
  /\ \A e \in BagToSet(sizeBag) : e.gen = 3

=============================================================================
